---- MODULE Spec2Model ----
(***************************************************************************)
(* Model of the ClearPath debt-payoff engine (src/src/App.jsx): minimum    *)
(* payment estimator, schedule requirement resolver, payment plan          *)
(* provider, monthly strategy simulator, reality gate and comparator.      *)
(*                                                                         *)
(* Units.  Money is an integer number of cents; an APR is an integer       *)
(* number of hundredths of a percent (2999 is 29.99%).  The source works   *)
(* in binary floating point and calls round2 after every mutation; the     *)
(* model computes the same quantities exactly and rounds half up to the    *)
(* cent where the source calls round2 on a value that is not already a     *)
(* whole number of cents.  An amount that the source leaves unrounded (an  *)
(* estimated minimum) is the exact pair [c, f]: c cents plus f/360000 of   *)
(* a cent, 360000 being a common denominator of every factor the           *)
(* estimator multiplies a balance by.                                      *)
(***************************************************************************)
EXTENDS Integers, Sequences, FiniteSets, TLC

VARIABLES
    \* ---- React state of App (what the user entered / what was persisted)
    debts,            \* sequence of debt records as the form keeps them
    paycheques,       \* paycheques[0].amount
    bills,            \* bills[0].amount
    monthlyPayment,   \* fixed monthly payment
    goal,             \* "speed" | "interest" | "stick"
    paymentMode,      \* "fixed" | "schedule"
    paymentSchedule,  \* sequence of rows [month, amount, allocations]
    uiMode,           \* "simple" | "advanced"
    idsMade,          \* how many debt ids makeId has produced so far
    \* ---- derived values kept by the render
    reality,          \* the gate's result for the current inputs
    simulation,       \* the comparator's result, [available |-> FALSE] for null
    \* ---- one run of simulateStrategy
    pc,               \* position of the program
    strategy,         \* "snowball" | "avalanche"
    state,            \* the run's own debt-state array
    month,            \* loop variable of the month loop
    totalInterest,
    timeline,         \* sequence of timeline entries
    cur,              \* locals of the month being simulated
    results,          \* value returned by the finished runs, by strategy
    \* ---- a pure function applied on its own
    probe             \* [fn, arguments, out] of the last application

inputVars == <<debts, paycheques, bills, monthlyPayment, goal, paymentMode,
               paymentSchedule, uiMode, idsMade>>
runVars == <<strategy, state, month, totalInterest, timeline, cur>>
vars == <<debts, paycheques, bills, monthlyPayment, goal, paymentMode,
          paymentSchedule, uiMode, idsMade, reality, simulation, pc, strategy, state,
          month, totalInterest, timeline, cur, results, probe>>

(***************************************************************************)
(* Arithmetic helpers                                                      *)
(***************************************************************************)
Max(a, b) == IF a >= b THEN a ELSE b
Min(a, b) == IF a <= b THEN a ELSE b

\* n cents as an exact amount
Cents(n) == [c |-> n, f |-> 0]

\* balance * mult / 360000, exactly, without leaving 32-bit integers
MulFrac(balance, mult) ==
    LET q  == balance \div 360000
        rm == balance % 360000
        r1 == rm \div 600
        r0 == rm % 600
        t  == r0 * mult
        u  == r1 * mult + (t \div 600)
    IN  [c |-> q * mult + (u \div 600), f |-> (u % 600) * 600 + (t % 600)]

QLeq(a, b) == a.c < b.c \/ (a.c = b.c /\ a.f <= b.f)
QMax(a, b) == IF QLeq(b, a) THEN a ELSE b
QAdd(a, b) ==
    LET s == a.f + b.f
    IN  [c |-> a.c + b.c + (s \div 360000), f |-> s % 360000]

\* Math.round((n + Number.EPSILON) * 100) / 100 on a non-negative amount:
\* the nearest cent, a half rounding up
round2(q) == q.c + (IF 2 * q.f >= 360000 THEN 1 ELSE 0)

RECURSIVE SumSeq(_)
SumSeq(s) == IF s = <<>> THEN 0 ELSE s[1] + SumSeq(Tail(s))

(***************************************************************************)
(* estimateMinimumPayment, computeMonthlyMinimumDynamic                    *)
(***************************************************************************)
floor == 2500

\* estimateMinimumPayment with a principal portion added for a line of credit
estimateMinimumPayment_LocWithPrincipal(debt) ==
    LET balance == Max(0, debt.balance)
        apr == Max(0, debt.interest_rate)
    IN  IF debt.type = "credit_card"
        THEN QMax(Cents(floor),
                  QMax(MulFrac(balance, 7200), MulFrac(balance, 3 * apr + 3600)))
        ELSE IF debt.type = "loc"
        THEN QMax(Cents(floor), MulFrac(balance, 3 * apr + 3600))
        ELSE IF debt.type = "loan"
        THEN QMax(Cents(floor), MulFrac(balance, 3 * apr + 10000))
        ELSE QMax(Cents(floor),
                  QMax(MulFrac(balance, 3 * apr + 1800), MulFrac(balance, 5400)))

\* estimateMinimumPayment with a loan's interest taken off its principal part
estimateMinimumPayment_LoanLessInterest(debt) ==
    LET balance == Max(0, debt.balance)
        apr == Max(0, debt.interest_rate)
        interestOnly == MulFrac(balance, 3 * apr)
    IN  IF debt.type = "credit_card"
        THEN QMax(Cents(floor),
                  QMax(MulFrac(balance, 7200), MulFrac(balance, 3 * apr + 3600)))
        ELSE IF debt.type = "loc"
        THEN QMax(Cents(floor), interestOnly)
        ELSE IF debt.type = "loan"
        THEN QMax(Cents(floor), MulFrac(balance, 10000 - 3 * apr))
        ELSE QMax(Cents(floor),
                  QMax(MulFrac(balance, 3 * apr + 1800), MulFrac(balance, 5400)))

\* The factor of the balance, in 1/360000, that each heuristic applies.
\* r = apr/100/12 is 3*apr/360000 with apr in hundredths of a percent.
estimateMinimumPayment(debt) ==
    LET balance == Max(0, debt.balance)
        apr == Max(0, debt.interest_rate)
        interestOnly == MulFrac(balance, 3 * apr)
    IN  IF debt.type = "credit_card"
        THEN QMax(Cents(floor),
                  QMax(MulFrac(balance, 7200), MulFrac(balance, 3 * apr + 3600)))
        ELSE IF debt.type = "loc"
        THEN QMax(Cents(floor), interestOnly)
        ELSE IF debt.type = "loan"
        THEN QMax(Cents(floor), MulFrac(balance, 3 * apr + 10000))
        ELSE QMax(Cents(floor),
                  QMax(MulFrac(balance, 3 * apr + 1800), MulFrac(balance, 5400)))

computeMonthlyMinimumDynamic(debt, currentBalance) ==
    LET est == estimateMinimumPayment([type |-> debt.type,
                                       balance |-> currentBalance,
                                       interest_rate |-> debt.interest_rate])
    IN  IF debt.min_floor_enabled THEN QMax(est, Cents(debt.min_floor)) ELSE est

(***************************************************************************)
(* computeScheduleMonthRequiredPayments                                    *)
(***************************************************************************)
\* the empty object {}
NoAlloc == [id \in {} |-> 0]

\* alloc[id] of a plain object: a missing key reads undefined, clamped to 0
AllocOf(alloc, id) == IF id \in DOMAIN alloc THEN Max(0, alloc[id]) ELSE 0

\* d.minimum_payment: a debt object without that property reads undefined,
\* which clampNumber turns into 0
MinimumPaymentOf(d) ==
    IF "minimum_payment" \in DOMAIN d THEN QMax(Cents(0), d.minimum_payment)
    ELSE Cents(0)

\* RequiredOf with the debt's minimum left out
RequiredOf_AllocationOnly(d, alloc) == AllocOf(alloc, d.id)

RequiredOf(d, alloc) == round2(QMax(MinimumPaymentOf(d), Cents(AllocOf(alloc, d.id))))

computeScheduleMonthRequiredPayments(ds, scheduleRow, payment) ==
    LET mPay == Max(0, payment)
        alloc == scheduleRow.allocations
        act == SelectSeq(ds, LAMBDA d : Max(0, d.balance) > 0)
        ids == {act[i].id : i \in 1..Len(act)}
        \* a later debt with the same id overwrites the object's entry
        requiredByDebtId ==
            [id \in ids |->
                LET last == CHOOSE i \in 1..Len(act) :
                               /\ act[i].id = id
                               /\ \A j \in 1..Len(act) : act[j].id = id => j <= i
                IN  RequiredOf(act[last], alloc)]
        requiredSum == SumSeq([i \in 1..Len(act) |-> RequiredOf(act[i], alloc)])
    IN  [requiredByDebtId |-> requiredByDebtId,
         requiredSum |-> requiredSum,
         overBudget |-> requiredSum > mPay,
         unassigned |-> Max(0, mPay - requiredSum)]

(***************************************************************************)
(* getPaymentPlanFn                                                        *)
(***************************************************************************)
\* Math.max(1, Math.floor(row.month)) on an integer month
RowMonth(row) == Max(1, row.month)

NormalRow(row) ==
    [month |-> RowMonth(row), amount |-> Max(0, row.amount),
     allocations |-> row.allocations]

\* ScheduleRowFor carrying the nearest earlier row into a month without a row
ScheduleRowFor_PreviousRow(fixed, scheduleRows, m) ==
    LET n == Len(scheduleRows)
        at(k) == {i \in 1..n : RowMonth(scheduleRows[i]) = k}
        lastAt(k) == CHOOSE i \in at(k) : \A j \in at(k) : j <= i
        months == {RowMonth(scheduleRows[i]) : i \in 1..n}
        earlier == {k \in months : k < m}
        pick == IF earlier # {} THEN earlier ELSE months
        maxMonth == IF pick = {} THEN 0
                    ELSE CHOOSE k \in pick : \A j \in pick : j <= k
    IN  IF at(m) # {} THEN NormalRow(scheduleRows[lastAt(m)])
        ELSE IF maxMonth # 0 THEN NormalRow(scheduleRows[lastAt(maxMonth)])
        ELSE [month |-> 1, amount |-> fixed, allocations |-> NoAlloc]

\* ScheduleRowFor falling back on the row listed last
ScheduleRowFor_LastListed(fixed, scheduleRows, m) ==
    LET n == Len(scheduleRows)
        at(k) == {i \in 1..n : RowMonth(scheduleRows[i]) = k}
        lastAt(k) == CHOOSE i \in at(k) : \A j \in at(k) : j <= i
    IN  IF at(m) # {} THEN NormalRow(scheduleRows[lastAt(m)])
        ELSE IF n # 0 THEN NormalRow(scheduleRows[n])
        ELSE [month |-> 1, amount |-> fixed, allocations |-> NoAlloc]

\* map.get(month) || lastRow: the last row written under that month, else the
\* row of the greatest month, else the fixed amount without allocations
ScheduleRowFor(fixed, scheduleRows, m) ==
    LET n == Len(scheduleRows)
        at(k) == {i \in 1..n : RowMonth(scheduleRows[i]) = k}
        lastAt(k) == CHOOSE i \in at(k) : \A j \in at(k) : j <= i
        months == {RowMonth(scheduleRows[i]) : i \in 1..n}
        maxMonth == IF months = {} THEN 0
                    ELSE CHOOSE k \in months : \A j \in months : j <= k
    IN  IF at(m) # {} THEN NormalRow(scheduleRows[lastAt(m)])
        ELSE IF maxMonth # 0 THEN NormalRow(scheduleRows[lastAt(maxMonth)])
        ELSE [month |-> 1, amount |-> fixed, allocations |-> NoAlloc]

\* The function getPaymentPlanFn returns, applied to month m.  hasRequired
\* is FALSE where the source returns requiredByDebtId: null.
PaymentPlan(mode, payment, scheduleRows, ds, m) ==
    LET fixed == Max(0, payment)
    IN  IF mode # "schedule"
        THEN [monthlyPayment |-> fixed, hasRequired |-> FALSE,
              requiredByDebtId |-> NoAlloc, requiredSum |-> 0,
              overBudget |-> FALSE, unassigned |-> 0]
        ELSE LET row == ScheduleRowFor(fixed, scheduleRows, m)
                 info == computeScheduleMonthRequiredPayments(ds, row, row.amount)
             IN  [monthlyPayment |-> row.amount, hasRequired |-> TRUE,
                  requiredByDebtId |-> info.requiredByDebtId,
                  requiredSum |-> info.requiredSum,
                  overBudget |-> info.overBudget,
                  unassigned |-> info.unassigned]

(***************************************************************************)
(* Derived values of App                                                   *)
(***************************************************************************)
income == paycheques
expenses == bills
freeCash == income - expenses

\* d.min_floor_enabled and d.min_floor read from a debt of the form state;
\* a property the object does not have reads undefined (falsy, 0)
FloorEnabledOf(d) ==
    IF "min_floor_enabled" \in DOMAIN d THEN d.min_floor_enabled ELSE FALSE
FloorOf(d) == IF "min_floor" \in DOMAIN d THEN d.min_floor ELSE 0

\* the summand of minimumsTotal for one debt of the form state
MinimumsTerm(d) ==
    LET bal == Max(0, d.balance)
        apr == Max(0, d.interest_rate)
    IN  IF bal <= 0 THEN Cents(0)
        ELSE computeMonthlyMinimumDynamic(
                 [type |-> d.type, interest_rate |-> apr,
                  min_floor_enabled |-> FloorEnabledOf(d),
                  min_floor |-> FloorOf(d)], bal)

RECURSIVE QSum(_)
QSum(s) == IF s = <<>> THEN Cents(0) ELSE QAdd(s[1], QSum(Tail(s)))

minimumsTotal == round2(QSum([i \in 1..Len(debts) |-> MinimumsTerm(debts[i])]))

debtsWithMin ==
    [i \in 1..Len(debts) |->
        LET d == debts[i]
            est == estimateMinimumPayment(d)
            overrideAmount == Max(0, d.min_override_amount)
            chosenMin == IF d.min_override_enabled THEN Cents(overrideAmount) ELSE est
        IN  [id |-> d.id, type |-> d.type, balance |-> d.balance,
             interest_rate |-> d.interest_rate,
             min_override_enabled |-> d.min_override_enabled,
             min_override_amount |-> d.min_override_amount,
             estimated_minimum_payment |-> est,
             minimum_payment |-> chosenMin]]

\* the object activeDebts builds for the debt at 0-based index idx
ActiveDebt(d, idx) ==
    [id |-> idx, type |-> d.type, balance |-> Max(0, d.balance),
     interest_rate |-> Max(0, d.interest_rate),
     min_floor_enabled |-> d.min_override_enabled,
     min_floor |-> Max(0, d.min_override_amount)]

activeDebts ==
    SelectSeq([i \in 1..Len(debtsWithMin) |-> ActiveDebt(debtsWithMin[i], i - 1)],
              LAMBDA d : d.balance > 0)

mpFixed == Max(0, monthlyPayment)

paymentPlanFn(m) == PaymentPlan(paymentMode, mpFixed, paymentSchedule, activeDebts, m)

firstMonthPlan == paymentPlanFn(1)
firstMonthPayment == Max(0, firstMonthPlan.monthlyPayment)
firstMonthOverBudget == firstMonthPlan.overBudget

(***************************************************************************)
(* The reality gate                                                        *)
(***************************************************************************)
\* IsAtRisk without the schedule rule
IsAtRisk_NoScheduleRule(incomeMissing, cannotCoverBills, cannotCoverMinimums, scheduleInvalid, month1BelowMins) ==
    \/ incomeMissing
    \/ cannotCoverBills
    \/ cannotCoverMinimums
    \/ month1BelowMins

\* IsAtRisk without the month-1 funding rule
IsAtRisk_NoMonth1Rule(incomeMissing, cannotCoverBills, cannotCoverMinimums, scheduleInvalid, month1BelowMins) ==
    \/ incomeMissing
    \/ cannotCoverBills
    \/ cannotCoverMinimums
    \/ scheduleInvalid

IsAtRisk(incomeMissing, cannotCoverBills, cannotCoverMinimums, scheduleInvalid, month1BelowMins) ==
    \/ incomeMissing
    \/ cannotCoverBills
    \/ cannotCoverMinimums
    \/ scheduleInvalid
    \/ month1BelowMins

RealityOf(active, minimums, firstPayment, firstOverBudget) ==
    LET hasDebts == Len(active) > 0
        incomeMissing == income <= 0
        cannotCoverBills == income < expenses
        cannotCoverMinimums == IF hasDebts THEN freeCash < minimums ELSE FALSE
        scheduleInvalid ==
            IF paymentMode = "schedule" THEN firstOverBudget ELSE FALSE
        month1BelowMins ==
            IF hasDebts THEN firstPayment < minimums ELSE FALSE
        isAtRisk == IsAtRisk(incomeMissing, cannotCoverBills, cannotCoverMinimums,
                             scheduleInvalid, month1BelowMins)
        bufferAfterMins == freeCash - minimums
    IN  [state |-> IF isAtRisk THEN "at_risk"
                   ELSE IF bufferAfterMins > 150000 /\ freeCash > 200000
                        THEN "optimizing"
                   ELSE IF bufferAfterMins < 20000 THEN "tight"
                   ELSE "stable",
         isAtRisk |-> isAtRisk,
         hasDebts |-> hasDebts,
         cannotCoverBills |-> cannotCoverBills,
         cannotCoverMinimums |-> cannotCoverMinimums,
         scheduleInvalid |-> scheduleInvalid,
         month1BelowMins |-> month1BelowMins,
         freeCash |-> freeCash,
         minimumsTotal |-> minimums,
         shortfallBills |-> Max(0, expenses - income),
         shortfallMinimums |-> IF hasDebts THEN Max(0, minimums - freeCash) ELSE 0,
         shortfallMonth1 |-> IF hasDebts THEN Max(0, minimums - firstPayment) ELSE 0,
         minIncomeNeeded |-> IF hasDebts THEN expenses + minimums ELSE expenses,
         minDebtPaymentNeeded |-> minimums]

\* the reality memo on the current inputs
Reality ==
    RealityOf(activeDebts, minimumsTotal, firstMonthPayment, firstMonthOverBudget)

(***************************************************************************)
(* simulateStrategy                                                        *)
(***************************************************************************)
MAX_MONTHS == 600

\* const state = debts.map(...); payoffMonth 0 stands for null
\* InitState that takes over the balances the previous run left in its array
InitState_SharedBalances(ds) ==
    [i \in 1..Len(ds) |->
        [id |-> ds[i].id, type |-> ds[i].type,
         apr |-> Max(0, ds[i].interest_rate),
         balance |-> IF Len(state) = Len(ds) THEN state[i].balance
                     ELSE Max(0, ds[i].balance),
         interestPaid |-> 0, payoffMonth |-> 0,
         min_floor_enabled |-> ds[i].min_floor_enabled,
         min_floor |-> Max(0, ds[i].min_floor)]]

InitState(ds) ==
    [i \in 1..Len(ds) |->
        [id |-> ds[i].id, type |-> ds[i].type,
         apr |-> Max(0, ds[i].interest_rate),
         balance |-> Max(0, ds[i].balance),
         interestPaid |-> 0, payoffMonth |-> 0,
         min_floor_enabled |-> ds[i].min_floor_enabled,
         min_floor |-> Max(0, ds[i].min_floor)]]

\* d.balance <= 0.000001 on a balance in whole cents
Paid(d) == d.balance <= 0

allPaid(st) == \A i \in 1..Len(st) : Paid(st[i])

\* Before with the tie-breaks on the APR reversed
Before_TieReversed(strat, a, b) ==
    IF strat = "snowball"
    THEN a.balance < b.balance \/ (a.balance = b.balance /\ a.apr < b.apr)
    ELSE a.apr > b.apr \/ (a.apr = b.apr /\ a.balance > b.balance)

\* Before with snowball ordering the largest balance first
Before_LargestFirst(strat, a, b) ==
    IF strat = "snowball"
    THEN a.balance > b.balance \/ (a.balance = b.balance /\ a.apr > b.apr)
    ELSE a.apr > b.apr \/ (a.apr = b.apr /\ a.balance < b.balance)

\* active.sort(...)[0]: does a come strictly before b in the strategy's order
Before(strat, a, b) ==
    IF strat = "snowball"
    THEN a.balance < b.balance \/ (a.balance = b.balance /\ a.apr > b.apr)
    ELSE a.apr > b.apr \/ (a.apr = b.apr /\ a.balance < b.balance)

\* pickTargetId: the position in st of the first element of the stably sorted
\* active debts, 0 for null
pickTargetId(strat, st) ==
    LET active == {i \in 1..Len(st) : st[i].balance > 0}
        firsts == {i \in active : \A j \in active : ~Before(strat, st[j], st[i])}
    IN  IF active = {} THEN 0
        ELSE CHOOSE i \in firsts : \A j \in firsts : i <= j

\* 1) accrue interest: round2(d.balance * d.r)
InterestOf(d) == IF Paid(d) THEN 0 ELSE round2(MulFrac(d.balance, 3 * d.apr))

\* Accrue that records the interest without adding it to the balance
Accrue_BalanceUntouched(st) ==
    [i \in 1..Len(st) |-> [st[i] EXCEPT !.interestPaid = @ + InterestOf(st[i])]]

Accrue(st) ==
    [i \in 1..Len(st) |->
        [st[i] EXCEPT !.balance = @ + InterestOf(st[i]),
                      !.interestPaid = @ + InterestOf(st[i])]]

\* DynamicMin without the floor override
DynamicMin_NoFloor(d) ==
    IF Paid(d) THEN 0
    ELSE round2(estimateMinimumPayment(
                    [type |-> d.type, balance |-> d.balance, interest_rate |-> d.apr]))

\* 2) dynamicMinByDebtId[d.id] || 0, on the balance after interest
DynamicMin(d) ==
    IF Paid(d) THEN 0
    ELSE round2(computeMonthlyMinimumDynamic(
                    [type |-> d.type, interest_rate |-> d.apr,
                     min_floor_enabled |-> d.min_floor_enabled,
                     min_floor |-> d.min_floor], d.balance))

\* intended payment of the required pass for one active debt
Intended(plan, d) ==
    IF plan.hasRequired
    THEN Max(AllocOf(plan.requiredByDebtId, d.id), DynamicMin(d))
    ELSE DynamicMin(d)

\* PayoffMonthAfter that never records the month
PayoffMonthAfter_NeverSet(d, balanceAfter, m) == d.payoffMonth

\* if (d.balance <= 0.000001 && d.payoffMonth == null) d.payoffMonth = month
PayoffMonthAfter(d, balanceAfter, m) ==
    IF balanceAfter <= 0 /\ d.payoffMonth = 0 THEN m ELSE d.payoffMonth

\* RequiredPay without the cap at the debt's balance
RequiredPay_NoBalanceCap(intended, balance, remaining) == Min(intended, remaining)

\* RequiredPay without the cap at what the month has left
RequiredPay_NoFundingCap(intended, balance, remaining) == Min(intended, balance)

\* const pay = round2(Math.min(intended, d.balance, remaining))
RequiredPay(intended, balance, remaining) == Min(intended, Min(balance, remaining))

\* 3) the required pass, from debt k on; a carries the running locals
RECURSIVE PayRequired(_, _, _, _, _)
PayRequired(plan, m, st, k, a) ==
    IF k > Len(st) THEN [state |-> st, acc |-> a]
    ELSE IF Paid(st[k]) THEN PayRequired(plan, m, st, k + 1, a)
    ELSE
      LET d == st[k]
          dynamicMin == DynamicMin(d)
          intended == Intended(plan, d)
          pay == RequiredPay(intended, d.balance, a.remaining)
          a1 == [a EXCEPT !.requiredSum = @ + intended]
      IN  IF pay > 0
          THEN PayRequired(plan, m,
                 [st EXCEPT ![k].balance = @ - pay,
                            ![k].payoffMonth = PayoffMonthAfter(d, d.balance - pay, m)],
                 k + 1,
                 [a1 EXCEPT !.paid[k] = @ + pay,
                            !.minPaid = @ + Min(dynamicMin, pay),
                            !.directedPaid = IF plan.hasRequired THEN @ + pay ELSE @,
                            !.remaining = @ - pay])
          ELSE PayRequired(plan, m, st, k + 1, a1)

\* ExtraPay that pays the target at most half of what the month has left
ExtraPay_HalfOfRemaining(balance, remaining) == Min(balance, (remaining + 1) \div 2)

\* const pay = round2(Math.min(t.balance, remaining))
ExtraPay(balance, remaining) == Min(balance, remaining)

\* while (remaining > 0.000001 && !allPaid()): the loop goes round again
ExtraLoopTest(st, remaining) == remaining > 0 /\ ~allPaid(st)

TotalBalance(st) == SumSeq([i \in 1..Len(st) |-> Max(0, st[i].balance)])

\* PlanOverBudget with the flag ignored
PlanOverBudget_Ignored(plan) == FALSE

\* if (plan?.overBudget): the month is not simulated
PlanOverBudget(plan) == plan.overBudget

\* InvalidEntry without the flag
InvalidEntry_NotFlagged(m, plan, total, st) ==
    [month |-> m, paymentThisMonth |-> Max(0, plan.monthlyPayment),
     requiredSum |-> plan.requiredSum, unassigned |-> plan.unassigned,
     interestThisMonth |-> 0, totalInterestToDate |-> total,
     minPaid |-> 0, directedPaid |-> 0, extraPaid |-> 0,
     totalRemaining |-> SumSeq([i \in 1..Len(st) |-> Max(0, st[i].balance)]),
     invalid |-> FALSE]

\* the entry pushed on the overBudget branch
InvalidEntry(m, plan, total, st) ==
    [month |-> m, paymentThisMonth |-> Max(0, plan.monthlyPayment),
     requiredSum |-> plan.requiredSum, unassigned |-> plan.unassigned,
     interestThisMonth |-> 0, totalInterestToDate |-> total,
     minPaid |-> 0, directedPaid |-> 0, extraPaid |-> 0,
     totalRemaining |-> TotalBalance(st), invalid |-> TRUE]

\* the entry pushed at the end of a simulated month
MonthEntry(m, c, total, st) ==
    [month |-> m, paymentThisMonth |-> c.paymentThisMonth,
     requiredSum |-> c.requiredSum, unassigned |-> c.unassigned,
     interestThisMonth |-> c.interestThisMonth, totalInterestToDate |-> total,
     minPaid |-> c.minPaid, directedPaid |-> c.directedPaid,
     extraPaid |-> c.extraPaid,
     totalRemaining |-> TotalBalance(st), invalid |-> FALSE]

\* the locals of a month before anything is simulated
NoCur(n) ==
    [paymentThisMonth |-> 0, hasRequired |-> FALSE,
     pre |-> [i \in 1..n |-> 0], interest |-> [i \in 1..n |-> 0],
     dynamicMin |-> [i \in 1..n |-> 0], intended |-> [i \in 1..n |-> 0],
     paid |-> [i \in 1..n |-> 0], extraBy |-> [i \in 1..n |-> 0],
     remaining |-> 0, requiredSum |-> 0, unassigned |-> 0,
     interestThisMonth |-> 0, minPaid |-> 0, directedPaid |-> 0,
     extraPaid |-> 0, iterations |-> 0, activeAtLoopStart |-> 0,
     target |-> 0, before |-> [i \in 1..n |-> 0]]

\* no run has returned
NoResult == [returned |-> FALSE]

\* no function has been applied
NoProbe == [fn |-> "none"]

(***************************************************************************)
(* Inputs the model draws from                                             *)
(***************************************************************************)
MaxDebts == 2

Row(m, amount, allocations) ==
    [month |-> m, amount |-> amount, allocations |-> allocations]

Kind(type, balance, apr, enabled, amount) ==
    [type |-> type, balance |-> balance, interest_rate |-> apr,
     min_override_enabled |-> enabled, min_override_amount |-> amount]

\* the debts a user may have entered
DebtKinds ==
    { Kind("credit_card", 10150, 0, FALSE, 0),
      Kind("loan", 2500, 0, FALSE, 0),
      Kind("credit_card", 200000, 1200, FALSE, 0),
      Kind("loc", 10000, 1800, FALSE, 0),
      Kind("credit_card", 10000, 1200, TRUE, 6000),
      Kind("other", 0, 1200, FALSE, 0) }

\* debts without interest, small enough to be repaid a cent at a time
SlowKinds ==
    { Kind("credit_card", 3099, 0, FALSE, 0),
      Kind("loan", 2500, 0, FALSE, 0) }

\* debt lists of the form state over the kinds ks, with the ids d1, d2, ...
\* of their creation
ListsOf(kinds) ==
    { [i \in DOMAIN ks |->
          [id |-> i, type |-> ks[i].type, balance |-> ks[i].balance,
           interest_rate |-> ks[i].interest_rate,
           min_override_enabled |-> ks[i].min_override_enabled,
           min_override_amount |-> ks[i].min_override_amount]] :
      ks \in UNION {[1..n -> kinds] : n \in 1..MaxDebts} }

Funding(mode, amount, rows) ==
    [paymentMode |-> mode, monthlyPayment |-> amount, paymentSchedule |-> rows]

\* persisted funding configurations
Fundings ==
    { Funding("fixed", 5000, <<Row(1, 5000, NoAlloc)>>),
      Funding("fixed", 6500, <<Row(1, 6500, NoAlloc)>>),
      Funding("fixed", 50000, <<Row(1, 50000, NoAlloc)>>),
      Funding("schedule", 8000, <<>>),
      Funding("schedule", 150000,
              <<Row(1, 8000, (0 :> 6000)), Row(2, 8000, (0 :> 5000) @@ (1 :> 4000))>>),
      Funding("schedule", 150000, <<Row(1, 5000, (0 :> 3000) @@ (1 :> 3000))>>),
      Funding("schedule", 150000,
              <<Row(1, 50000, NoAlloc), Row(3, 8000, (1 :> 7000))>>) }

\* a schedule whose last row, one cent a month, governs months 2 to 600
SlowFunding ==
    Funding("schedule", 150000, <<Row(1, 5000, NoAlloc), Row(2, 1, NoAlloc)>>)

\* arguments of computeScheduleMonthRequiredPayments: debts with the ids 0, 1,
\* ... of their position, a balance, and a minimum_payment that is resolved
\* or (as in activeDebts) not there
ProbeDebtLists ==
    UNION { { [i \in 1..n |->
                  IF mins[i] < 0
                  THEN [id |-> i - 1, balance |-> bals[i]]
                  ELSE [id |-> i - 1, balance |-> bals[i],
                        minimum_payment |-> Cents(mins[i])]] :
              bals \in [1..n -> {0, 10000}], mins \in [1..n -> {-1, 2500, 4000}] } :
            n \in 0..MaxDebts }

ProbeAllocations ==
    UNION { [ids -> {3000, 5000}] : ids \in SUBSET (0..(MaxDebts - 1)) }

ProbeAmounts == {0, 5000, 6500, 10000}

\* arguments of estimateMinimumPayment: the four types of the form's select,
\* the spec's name of the fourth, balances and rates
ProbeTypes == {"credit_card", "loan", "loc", "line_of_credit", "other"}

ProbeBalances == {0, 10000, 100000, 125000, 150000, 400000, 600000}

ProbeRates == {0, 799, 1200, 1800, 2999}

\* arguments of getPaymentPlanFn: schedules of up to MaxRows rows, in any
\* order and with repeated months, and the month asked for
MaxRows == 2

ProbeRows ==
    { Row(m, amount, alloc) :
        m \in {1, 2, 4}, amount \in {5000, 8000}, alloc \in {NoAlloc, (0 :> 3000)} }

ProbeSchedules == UNION { [1..n -> ProbeRows] : n \in 0..MaxRows }

ProbeMonths == 1..6

\* the debt form under editing: makeId is called at most MaxIds times
MaxIds == 3

EditKinds ==
    { Kind("loan", 2500, 0, FALSE, 0),
      Kind("credit_card", 10150, 0, FALSE, 0) }

\* the patches of updateDebt and the values typed into an allocation field
Patches == { [balance |-> 0], [balance |-> 2500] }

AllocationValues == {0, 3000}

\* DEFAULTS
DefaultDebts ==
    << [id |-> 1, type |-> "credit_card", balance |-> 400000, interest_rate |-> 2999,
        min_override_enabled |-> FALSE, min_override_amount |-> 0],
       [id |-> 2, type |-> "loan", balance |-> 600000, interest_rate |-> 799,
        min_override_enabled |-> FALSE, min_override_amount |-> 0] >>

DefaultSchedule == [m \in 1..6 |-> Row(m, 150000, NoAlloc)]

\* a small interest-free loan beside a large expensive card: paying the card
\* first saves a month
RaceDebts ==
    << [id |-> 1, type |-> "loan", balance |-> 20000, interest_rate |-> 0,
        min_override_enabled |-> FALSE, min_override_amount |-> 0],
       [id |-> 2, type |-> "credit_card", balance |-> 260000, interest_rate |-> 2999,
        min_override_enabled |-> FALSE, min_override_amount |-> 0] >>

Incomes == {0, 200000, 275000, 530000}
Goals == {"speed", "interest", "stick"}

\* persisted inputs <<debts, funding, income, goal>>: every debt list under
\* every funding; the interest-free lists under the one-cent schedule; every
\* income and every goal under one fixed payment; the default debts and the
\* race debts under a fixed payment and every goal
Scenarios ==
    (ListsOf(DebtKinds) \X Fundings \X {530000} \X {"speed"})
    \cup (ListsOf(SlowKinds) \X {SlowFunding} \X {530000} \X {"speed"})
    \cup (ListsOf(DebtKinds) \X {Funding("fixed", 6500, <<Row(1, 6500, NoAlloc)>>)}
              \X Incomes \X Goals)
    \cup ({DefaultDebts} \X {Funding("fixed", 150000, DefaultSchedule)}
              \X {530000} \X Goals)
    \cup ({RaceDebts} \X {Funding("fixed", 145000, DefaultSchedule)}
              \X {530000} \X Goals)

\* inputs under which the runs are called in any order, again and again
OrderScenarios ==
    ({DefaultDebts} \X {Funding("fixed", 150000, DefaultSchedule)})
    \cup ({RaceDebts} \X {Funding("fixed", 145000, DefaultSchedule)})
    \cup (ListsOf(EditKinds) \X
            {Funding("schedule", 150000,
                     <<Row(1, 8000, (0 :> 6000)),
                       Row(2, 8000, (0 :> 5000) @@ (1 :> 4000))>>)})

\* persisted inputs under which the modes are switched: a month-by-month
\* plan or a fixed payment
ModeScenarios ==
    ListsOf(EditKinds) \X
        { Funding("schedule", 150000,
                  <<Row(1, 8000, (0 :> 6000)),
                    Row(2, 8000, (0 :> 5000) @@ (1 :> 4000))>>),
          Funding("fixed", 6500, <<Row(1, 6500, NoAlloc)>>) }

Strategies == {"snowball", "avalanche"}

(***************************************************************************)
(* Actions                                                                 *)
(***************************************************************************)
\* simulateStrategy(strat, activeDebts, paymentPlanFn) is entered
BeginRun(strat) ==
    /\ strategy' = strat
    /\ state' = InitState(activeDebts)
    /\ month' = 1
    /\ totalInterest' = 0
    /\ timeline' = <<>>
    /\ cur' = NoCur(Len(activeDebts))
    /\ pc' = "month"

\* after the payments of a step: another round of the while loop, or the
\* month's entry is pushed and the for loop goes on
AfterPayments(st, c, total) ==
    /\ state' = st
    /\ IF ExtraLoopTest(st, c.remaining)
       THEN /\ cur' = [c EXCEPT !.activeAtLoopStart =
                          IF c.iterations = 0
                          THEN Cardinality({i \in 1..Len(st) : ~Paid(st[i])})
                          ELSE @]
            /\ pc' = "extra"
            /\ UNCHANGED <<month, timeline>>
       ELSE /\ cur' = c
            /\ timeline' = Append(timeline, MonthEntry(month, c, total, st))
            /\ month' = month + 1
            /\ pc' = "month"

\* one pass of the for loop body up to the while loop
MonthStep ==
    /\ pc = "month"
    /\ month <= MAX_MONTHS
    /\ ~allPaid(state)
    /\ LET plan == paymentPlanFn(month)
           paymentThisMonth == Max(0, plan.monthlyPayment)
       IN  IF PlanOverBudget(plan)
           THEN /\ timeline' = Append(timeline,
                                  InvalidEntry(month, plan, totalInterest, state))
                /\ pc' = "exit"
                /\ UNCHANGED <<state, month, totalInterest, cur>>
           ELSE LET n == Len(state)
                    accrued == Accrue(state)
                    interest == [i \in 1..n |-> InterestOf(state[i])]
                    total == totalInterest + SumSeq(interest)
                    a0 == [NoCur(n) EXCEPT
                             !.paymentThisMonth = paymentThisMonth,
                             !.hasRequired = plan.hasRequired,
                             !.pre = [i \in 1..n |-> state[i].balance],
                             !.interest = interest,
                             !.interestThisMonth = SumSeq(interest),
                             !.dynamicMin = [i \in 1..n |-> DynamicMin(accrued[i])],
                             !.intended = [i \in 1..n |->
                                 IF Paid(accrued[i]) THEN 0
                                 ELSE Intended(plan, accrued[i])],
                             !.remaining = paymentThisMonth]
                    req == PayRequired(plan, month, accrued, 1, a0)
                    c == [req.acc EXCEPT
                            !.unassigned = Max(0, paymentThisMonth - req.acc.requiredSum)]
                IN  /\ totalInterest' = total
                    /\ AfterPayments(req.state, c, total)
    /\ UNCHANGED <<inputVars, reality, simulation, strategy, results, probe>>

\* one round of the discretionary while loop
ExtraStep ==
    /\ pc = "extra"
    /\ LET targetId == pickTargetId(strategy, state)
           pay == IF targetId = 0 THEN 0
                  ELSE ExtraPay(state[targetId].balance, cur.remaining)
       IN  IF targetId = 0 \/ pay <= 0
           THEN \* break
                /\ timeline' = Append(timeline,
                                  MonthEntry(month, cur, totalInterest, state))
                /\ month' = month + 1
                /\ pc' = "month"
                /\ UNCHANGED <<state, cur>>
           ELSE AfterPayments(
                  [state EXCEPT ![targetId].balance = @ - pay,
                                ![targetId].payoffMonth =
                                    PayoffMonthAfter(state[targetId],
                                        state[targetId].balance - pay, month)],
                  [cur EXCEPT !.remaining = @ - pay,
                              !.extraPaid = @ + pay,
                              !.extraBy[targetId] = @ + pay,
                              !.paid[targetId] = @ + pay,
                              !.iterations = @ + 1,
                              !.target = targetId,
                              !.before = [i \in 1..Len(state) |-> state[i].balance]],
                  totalInterest)
    /\ UNCHANGED <<inputVars, reality, simulation, strategy, totalInterest, results, probe>>

\* MonthsToDebtFree that always reports the timeline's length
MonthsToDebtFree_TimelineLength(st, tl) == Len(tl)

\* MonthsToDebtFree with the two branches exchanged
MonthsToDebtFree_Exchanged(st, tl) == IF allPaid(st) THEN MAX_MONTHS ELSE Len(tl)

\* const monthsToDebtFree = allPaid() ? timeline.length : MAX_MONTHS
MonthsToDebtFree(st, tl) == IF allPaid(st) THEN Len(tl) ELSE MAX_MONTHS

RunResult(strat, st, total, tl) ==
    [returned |-> TRUE, strategy |-> strat,
     monthsToDebtFree |-> MonthsToDebtFree(st, tl),
     totalInterest |-> total, timeline |-> tl,
     perDebt |-> [i \in 1..Len(st) |->
         [id |-> st[i].id, apr |-> st[i].apr,
          payoffMonth |-> IF st[i].payoffMonth = 0
                          THEN MonthsToDebtFree(st, tl) ELSE st[i].payoffMonth,
          interestPaid |-> st[i].interestPaid]]]

\* the for loop is left (break, or month > MAX_MONTHS) and the run returns
Return ==
    /\ \/ pc = "exit"
       \/ pc = "month" /\ (month > MAX_MONTHS \/ allPaid(state))
    /\ results' = [results EXCEPT ![strategy] =
                      RunResult(strategy, state, totalInterest, timeline)]
    /\ pc' = "returned"
    /\ UNCHANGED <<inputVars, reality, simulation, runVars, probe>>

\* pickWinner with ties given to avalanche
pickWinner_TiesToAvalanche(g, snow, aval) ==
    IF g = "speed"
    THEN (IF snow.monthsToDebtFree < aval.monthsToDebtFree
          THEN "snowball" ELSE "avalanche")
    ELSE IF g = "interest"
    THEN (IF snow.totalInterest < aval.totalInterest
          THEN "snowball" ELSE "avalanche")
    ELSE "snowball"

pickWinner(g, snow, aval) ==
    IF g = "speed"
    THEN (IF snow.monthsToDebtFree <= aval.monthsToDebtFree
          THEN "snowball" ELSE "avalanche")
    ELSE IF g = "interest"
    THEN (IF snow.totalInterest <= aval.totalInterest
          THEN "snowball" ELSE "avalanche")
    ELSE "snowball"

Abs(x) == IF x < 0 THEN -x ELSE x

\* snow.timeline?.[0]?.invalid
FirstInvalid(r) == Len(r.timeline) > 0 /\ r.timeline[1].invalid

NoSimulation == [available |-> FALSE]

\* MaySimulate without the reality gate
MaySimulate_Ungated(r, active) == Len(active) >= 2

\* the gate of the simulation memo: a comparison is attempted
MaySimulate(r, active) == ~r.isAtRisk /\ Len(active) >= 2

\* a render: the gate is evaluated, and the simulation memo either returns
\* null at once or calls simulateStrategy("snowball", ...)
Render ==
    /\ pc = "render"
    /\ reality' = Reality
    /\ results' = [s \in Strategies |-> NoResult]
    /\ IF MaySimulate(reality', activeDebts)
       THEN /\ BeginRun("snowball")
            /\ UNCHANGED simulation
       ELSE /\ simulation' = NoSimulation
            /\ pc' = "effects"
            /\ UNCHANGED runVars
    /\ UNCHANGED <<inputVars, probe>>

\* the simulation memo after the snowball run: the avalanche run
SecondRun ==
    /\ pc = "returned"
    /\ strategy = "snowball"
    /\ BeginRun("avalanche")
    /\ UNCHANGED <<inputVars, reality, simulation, results, probe>>

\* the simulation memo after both runs
Compare ==
    /\ pc = "returned"
    /\ strategy = "avalanche"
    /\ LET snow == results["snowball"]
           aval == results["avalanche"]
       IN  simulation' =
             IF FirstInvalid(snow) \/ FirstInvalid(aval) THEN NoSimulation
             ELSE [available |-> TRUE,
                   winner |-> pickWinner(goal, snow, aval),
                   monthsDiff |-> Abs(snow.monthsToDebtFree - aval.monthsToDebtFree),
                   interestDiff |-> Abs(snow.totalInterest - aval.totalInterest)]
    /\ pc' = "effects"
    /\ UNCHANGED <<inputVars, reality, runVars, results, probe>>

\* EffectForcesFixed that never fires
EffectForcesFixed_Never(ui, mode) == FALSE

\* if (uiMode === "simple" && paymentMode !== "fixed")
EffectForcesFixed(ui, mode) == ui = "simple" /\ mode # "fixed"

\* useEffect(..., [uiMode, paymentMode]): simple mode forces the fixed mode
Effects ==
    /\ pc = "effects"
    /\ IF EffectForcesFixed(uiMode, paymentMode)
       THEN paymentMode' = "fixed" /\ pc' = "render"
       ELSE pc' = "idle" /\ UNCHANGED paymentMode
    /\ UNCHANGED <<debts, paycheques, bills, monthlyPayment, goal,
                   paymentSchedule, uiMode, idsMade, reality, simulation, runVars,
                   results, probe>>

\* the Simple / Advanced toggle
SetUiMode(m) ==
    /\ pc = "idle"
    /\ uiMode # m
    /\ uiMode' = m
    /\ pc' = "render"
    /\ UNCHANGED <<debts, paycheques, bills, monthlyPayment, goal, paymentMode,
                   paymentSchedule, idsMade, reality, simulation, runVars, results,
                   probe>>

\* the payment mode buttons, rendered in advanced mode only
SetPaymentMode(m) ==
    /\ pc = "idle"
    /\ uiMode = "advanced"
    /\ paymentMode # m
    /\ paymentMode' = m
    /\ pc' = "render"
    /\ UNCHANGED <<debts, paycheques, bills, monthlyPayment, goal,
                   paymentSchedule, uiMode, idsMade, reality, simulation, runVars,
                   results, probe>>

\* a direct call of simulateStrategy with the application's debts and plan
CallSimulate(strat) ==
    /\ pc = "call"
    /\ BeginRun(strat)
    /\ UNCHANGED <<inputVars, reality, simulation, results, probe>>

\* a call of simulateStrategy at the start or after an earlier call returned
CallInAnyOrder(strat) ==
    /\ pc \in {"call", "returned"}
    /\ BeginRun(strat)
    /\ UNCHANGED <<inputVars, reality, simulation, results, probe>>

\* emptyDebt(): a blank balance and rate read as 0
emptyDebt(id) ==
    [id |-> id, type |-> "credit_card", balance |-> 0, interest_rate |-> 0,
     min_override_enabled |-> FALSE, min_override_amount |-> 0]

addDebt ==
    /\ pc = "idle"
    /\ idsMade < MaxIds
    /\ debts' = Append(debts, emptyDebt(idsMade + 1))
    /\ idsMade' = idsMade + 1
    /\ pc' = "render"
    /\ UNCHANGED <<paycheques, bills, monthlyPayment, goal, paymentMode,
                   paymentSchedule, uiMode, reality, simulation, runVars, results,
                   probe>>

removeDebt(index) ==
    /\ pc = "idle"
    /\ index \in 1..Len(debts)
    /\ LET next == [i \in 1..(Len(debts) - 1) |->
                       IF i < index THEN debts[i] ELSE debts[i + 1]]
       IN  IF next # <<>>
           THEN debts' = next /\ UNCHANGED idsMade
           ELSE /\ idsMade < MaxIds
                /\ debts' = <<emptyDebt(idsMade + 1)>>
                /\ idsMade' = idsMade + 1
    /\ pc' = "render"
    /\ UNCHANGED <<paycheques, bills, monthlyPayment, goal, paymentMode,
                   paymentSchedule, uiMode, reality, simulation, runVars, results,
                   probe>>

\* { ...d, ...patch }
updateDebt(index, patch) ==
    /\ pc = "idle"
    /\ index \in 1..Len(debts)
    /\ LET d == debts[index]
           merged == [f \in DOMAIN d |-> IF f \in DOMAIN patch THEN patch[f] ELSE d[f]]
       IN  /\ merged # d
           /\ debts' = [debts EXCEPT ![index] = merged]
    /\ pc' = "render"
    /\ UNCHANGED <<paycheques, bills, monthlyPayment, goal, paymentMode,
                   paymentSchedule, uiMode, idsMade, reality, simulation, runVars,
                   results, probe>>

\* the allocation field of an active debt in a schedule row (the schedule is
\* shown in advanced mode under the month-by-month plan type)
setAllocation(scheduleIdx, debtId, value) ==
    /\ pc = "idle"
    /\ uiMode = "advanced"
    /\ paymentMode = "schedule"
    /\ scheduleIdx \in 1..Len(paymentSchedule)
    /\ debtId \in {activeDebts[i].id : i \in 1..Len(activeDebts)}
    /\ LET alloc == paymentSchedule[scheduleIdx].allocations
           v == Max(0, value)
           next == IF v <= 0
                   THEN [k \in (DOMAIN alloc) \ {debtId} |-> alloc[k]]
                   ELSE [k \in (DOMAIN alloc) \cup {debtId} |->
                            IF k = debtId THEN v ELSE alloc[k]]
       IN  /\ next # alloc
           /\ paymentSchedule' =
                  [paymentSchedule EXCEPT ![scheduleIdx].allocations = next]
    /\ pc' = "render"
    /\ UNCHANGED <<debts, paycheques, bills, monthlyPayment, goal, paymentMode,
                   uiMode, idsMade, reality, simulation, runVars, results, probe>>

\* computeScheduleMonthRequiredPayments applied on its own to a debt list with
\* resolved minimums, a schedule row and an amount
ApplyResolver ==
    /\ pc = "probe"
    /\ \E ds \in ProbeDebtLists, alloc \in ProbeAllocations, amount \in ProbeAmounts :
          probe' = [fn |-> "computeScheduleMonthRequiredPayments",
                    debts |-> ds,
                    scheduleRow |-> Row(1, amount, alloc),
                    monthlyPayment |-> amount,
                    out |-> computeScheduleMonthRequiredPayments(
                                ds, Row(1, amount, alloc), amount)]
    /\ pc' = "probed"
    /\ UNCHANGED <<inputVars, reality, simulation, runVars, results>>

\* estimateMinimumPayment applied on its own
ApplyEstimate ==
    /\ pc = "probe"
    /\ \E type \in ProbeTypes, balance \in ProbeBalances, rate \in ProbeRates :
          LET debt == [type |-> type, balance |-> balance, interest_rate |-> rate]
          IN  probe' = [fn |-> "estimateMinimumPayment",
                        debt |-> debt,
                        out |-> estimateMinimumPayment(debt)]
    /\ pc' = "probed"
    /\ UNCHANGED <<inputVars, reality, simulation, runVars, results>>

\* the function getPaymentPlanFn returns for schedule mode, applied to a month
ApplyPlanFn ==
    /\ pc = "probe"
    /\ \E rows \in ProbeSchedules, m \in ProbeMonths :
          probe' = [fn |-> "getPaymentPlanFn",
                    scheduleRows |-> rows,
                    month |-> m,
                    row |-> ScheduleRowFor(mpFixed, rows, m),
                    out |-> PaymentPlan("schedule", mpFixed, rows, activeDebts, m)]
    /\ pc' = "probed"
    /\ UNCHANGED <<inputVars, reality, simulation, runVars, results>>

(***************************************************************************)
(* Specifications                                                          *)
(***************************************************************************)
InitInputs ==
    /\ \E sc \in Scenarios :
          /\ debts = sc[1]
          /\ paymentMode = sc[2].paymentMode
          /\ monthlyPayment = sc[2].monthlyPayment
          /\ paymentSchedule = sc[2].paymentSchedule
          /\ paycheques = sc[3]
          /\ goal = sc[4]
    /\ bills = 270000
    /\ uiMode = "simple"
    /\ idsMade = Len(debts)

InitRun ==
    /\ reality = Reality
    /\ simulation = NoSimulation
    /\ strategy = "snowball"
    /\ state = <<>>
    /\ month = 1
    /\ totalInterest = 0
    /\ timeline = <<>>
    /\ cur = NoCur(0)
    /\ results = [s \in Strategies |-> NoResult]
    /\ probe = NoProbe

\* the application: startup from the persisted inputs, then renders
Init == InitInputs /\ InitRun /\ pc = "render"

Next ==
    \/ Render
    \/ MonthStep
    \/ ExtraStep
    \/ Return
    \/ SecondRun
    \/ Compare
    \/ Effects
    \/ \E m \in {"simple", "advanced"} : SetUiMode(m)
    \/ \E m \in {"fixed", "schedule"} : SetPaymentMode(m)

Spec == Init /\ [][Next]_vars

\* the application under mode switches; a render, the runs it makes and the
\* effect that follows it are executed once they are due, the user's clicks
\* may or may not come
ProgramStep ==
    \/ Render
    \/ MonthStep
    \/ ExtraStep
    \/ Return
    \/ SecondRun
    \/ Compare
    \/ Effects

InitModes ==
    /\ \E sc \in ModeScenarios :
          /\ debts = sc[1]
          /\ paymentMode = sc[2].paymentMode
          /\ monthlyPayment = sc[2].monthlyPayment
          /\ paymentSchedule = sc[2].paymentSchedule
    /\ paycheques = 530000
    /\ goal = "speed"
    /\ bills = 270000
    /\ uiMode = "simple"
    /\ idsMade = Len(debts)
    /\ InitRun
    /\ pc = "render"

\* a program step is due
ProgramDue == pc # "idle"

\* weak fairness of ProgramStep, which is enabled exactly when a program step
\* is due (only program steps leave a state in which one is due): the
\* program is not left forever at a point where its next step is due
ProgramRuns == []<>(~ProgramDue) \/ []<><<ProgramDue>>_vars

SpecModes == InitModes /\ [][Next]_vars /\ ProgramRuns

\* simulateStrategy alone, called on the application's debts and plan
\* function whatever the gate says
InitSim ==
    /\ InitInputs /\ InitRun /\ pc = "call"

NextSim ==
    \/ \E s \in Strategies : CallSimulate(s)
    \/ MonthStep
    \/ ExtraStep
    \/ Return

SpecSim == InitSim /\ [][NextSim]_vars

\* simulateStrategy called with the application's debts and plan function,
\* for either strategy, in any order and any number of times
InitOrder ==
    /\ \E sc \in OrderScenarios :
          /\ debts = sc[1]
          /\ paymentMode = sc[2].paymentMode
          /\ monthlyPayment = sc[2].monthlyPayment
          /\ paymentSchedule = sc[2].paymentSchedule
    /\ paycheques = 530000
    /\ goal = "speed"
    /\ bills = 270000
    /\ uiMode = "advanced"
    /\ idsMade = Len(debts)
    /\ InitRun
    /\ pc = "call"

NextOrder ==
    \/ \E strat \in Strategies : CallInAnyOrder(strat)
    \/ MonthStep
    \/ ExtraStep
    \/ Return

SpecOrder == InitOrder /\ [][NextOrder]_vars

\* the while loop is straight-line code of one call: once entered, its next
\* iteration is executed
SpecOrderFair == SpecOrder /\ WF_vars(ExtraStep)

\* the application with the debt form and the schedule's allocations edited
InitEdit ==
    /\ debts \in ListsOf(EditKinds)
    /\ paycheques = 530000
    /\ bills = 270000
    /\ monthlyPayment = 20000
    /\ goal = "speed"
    /\ paymentMode = "schedule"
    /\ paymentSchedule = <<Row(1, 20000, NoAlloc)>>
    /\ uiMode = "simple"
    /\ idsMade = Len(debts)
    /\ InitRun
    /\ pc = "render"

NextEdit ==
    \/ Next
    \/ addDebt
    \/ \E index \in 1..MaxIds : removeDebt(index)
    \/ \E index \in 1..MaxIds, patch \in Patches : updateDebt(index, patch)
    \/ \E scheduleIdx \in 1..MaxRows, debtId \in 0..(MaxIds - 1),
          value \in AllocationValues :
            setAllocation(scheduleIdx, debtId, value)

SpecEdit == InitEdit /\ [][NextEdit]_vars

\* the pure functions applied on their own; the application holds DEFAULTS
InitFn ==
    /\ debts = DefaultDebts
    /\ paycheques = 530000
    /\ bills = 270000
    /\ monthlyPayment = 150000
    /\ goal = "speed"
    /\ paymentMode = "fixed"
    /\ paymentSchedule = DefaultSchedule
    /\ uiMode = "simple"
    /\ idsMade = Len(debts)
    /\ InitRun
    /\ pc = "probe"

NextFn ==
    \/ ApplyResolver
    \/ ApplyPlanFn
    \/ ApplyEstimate

SpecFn == InitFn /\ [][NextFn]_vars

(***************************************************************************)
(* Properties                                                              *)
(***************************************************************************)
\* the program is inside a run of simulateStrategy, or the run has returned
RunPcs == {"month", "extra", "exit", "returned"}

LastEntry == timeline[Len(timeline)]

\* C1: in every run of simulateStrategy, at every point of every simulated
\* month, each debt's balance is >= 0 and what the debt was paid in the month
\* (required pass plus discretionary pass) is at most its balance at the start
\* of the month plus the interest accrued on it in the month.
C1_BalanceAndPaymentBound ==
    pc \in RunPcs =>
        \A i \in 1..Len(state) :
            /\ state[i].balance >= 0
            /\ cur.paid[i] <= cur.pre[i] + cur.interest[i]

\* a debt that accrued interest is repaid in full within one month, partly by
\* the required pass and partly by the discretionary pass
C1_Witness ==
    /\ pc \in RunPcs
    /\ \E i \in 1..Len(state) :
          /\ cur.interest[i] > 0
          /\ cur.extraBy[i] > 0
          /\ cur.paid[i] > cur.extraBy[i]
          /\ cur.paid[i] = cur.pre[i] + cur.interest[i]

\* C2 as stated: monthsToDebtFree <= 600, and it is 600 only when some debt
\* is still unpaid at the end of the run.
C2_CapOnlyWhenUnpaid ==
    pc = "returned" =>
        /\ results[strategy].monthsToDebtFree <= MAX_MONTHS
        /\ results[strategy].monthsToDebtFree = MAX_MONTHS => ~allPaid(state)

\* C2, amended: monthsToDebtFree <= 600, and it is 600 only when some debt is
\* still unpaid at the end of the run or the last debt was repaid in month 600
\* itself (the timeline then has 600 entries).
C2_CapOnlyWhenUnpaidOrPaidInLastMonth ==
    pc = "returned" =>
        /\ results[strategy].monthsToDebtFree <= MAX_MONTHS
        /\ results[strategy].monthsToDebtFree = MAX_MONTHS =>
              \/ ~allPaid(state)
              \/ /\ Len(timeline) = MAX_MONTHS
                 /\ \E i \in 1..Len(state) : state[i].payoffMonth = MAX_MONTHS

\* a run that simulated all 600 months and returns the cap with a debt unpaid
C2_Witness ==
    /\ pc = "returned"
    /\ results[strategy].monthsToDebtFree = MAX_MONTHS
    /\ Len(timeline) = MAX_MONTHS
    /\ ~allPaid(state)

\* C3: the debt paid by a discretionary iteration is, among the debts with a
\* positive balance when the iteration starts, for snowball one of smallest
\* balance and among those of highest APR, for avalanche one of highest APR
\* and among those of smallest balance.
C3_TargetRule ==
    (pc \in RunPcs /\ cur.iterations > 0) =>
        LET t == cur.target
            bal == cur.before
            active == {j \in 1..Len(state) : bal[j] > 0}
        IN  /\ t \in active
            /\ \A j \in active :
                  IF strategy = "snowball"
                  THEN /\ bal[t] <= bal[j]
                       /\ bal[t] = bal[j] => state[t].apr >= state[j].apr
                  ELSE /\ state[t].apr >= state[j].apr
                       /\ state[t].apr = state[j].apr => bal[t] <= bal[j]

\* a snowball iteration whose target ties on the balance with an earlier debt
\* of lower APR
C3_Witness ==
    /\ pc \in RunPcs
    /\ cur.iterations > 0
    /\ strategy = "snowball"
    /\ \E j \in 1..Len(state) :
          /\ j < cur.target
          /\ cur.before[j] = cur.before[cur.target]
          /\ state[j].apr < state[cur.target].apr

\* C4: when the plan of the month about to be simulated reports overBudget,
\* the run appends one entry for that month with invalid = TRUE, no interest
\* and no payments, changes no debt's balance, cumulative interest or
\* payoffMonth, and simulates nothing afterwards: an invalid entry is always
\* the last entry of its timeline.
C4_OverBudgetHalts ==
    /\ [](pc \in RunPcs =>
            \A i \in 1..Len(timeline) :
                timeline[i].invalid =>
                    /\ i = Len(timeline)
                    /\ pc \in {"exit", "returned"}
                    /\ timeline[i].interestThisMonth = 0
                    /\ timeline[i].minPaid = 0
                    /\ timeline[i].directedPaid = 0
                    /\ timeline[i].extraPaid = 0)
    /\ [][(/\ pc = "month"
           /\ month <= MAX_MONTHS
           /\ ~allPaid(state)
           /\ paymentPlanFn(month).overBudget)
          => (/\ Len(timeline') = Len(timeline) + 1
              /\ SubSeq(timeline', 1, Len(timeline)) = timeline
              /\ timeline'[Len(timeline')].invalid
              /\ timeline'[Len(timeline')].month = month
              /\ state' = state
              /\ totalInterest' = totalInterest
              /\ pc' = "exit")]_vars
    /\ [][pc = "exit" =>
              (pc' = "returned" /\ timeline' = timeline /\ state' = state)]_vars

\* a run halted by an over-budget month after at least one simulated month
C4_Witness ==
    /\ pc = "exit"
    /\ Len(timeline) >= 2
    /\ LastEntry.invalid
    /\ ~timeline[1].invalid
    /\ timeline[1].interestThisMonth > 0

\* C5 as stated: whenever the required payments of a simulated month exceed
\* the month's funding, the month's entry is invalid.
C5_RequiredOverFundingIsInvalid ==
    (pc \in RunPcs /\ Len(timeline) > 0) =>
        (LastEntry.requiredSum > LastEntry.paymentThisMonth => LastEntry.invalid)

\* C5, amended: a month's entry is invalid exactly when the plan function
\* reports overBudget for that month, which it never does in fixed mode; the
\* run then halts and the entry is the last one.  A month whose required
\* payments exceed its funding without the plan reporting overBudget is
\* simulated and gets an ordinary entry with unassigned = 0.
C5_InvalidIffPlanOverBudget ==
    (pc \in RunPcs /\ Len(timeline) > 0) =>
        /\ LastEntry.invalid <=> paymentPlanFn(LastEntry.month).overBudget
        /\ paymentMode # "schedule" => ~LastEntry.invalid
        /\ LastEntry.invalid => pc \in {"exit", "returned"}
        /\ \A i \in 1..(Len(timeline) - 1) : ~timeline[i].invalid
        /\ (~LastEntry.invalid /\ LastEntry.requiredSum > LastEntry.paymentThisMonth)
              => LastEntry.unassigned = 0

\* a schedule month whose plan is over budget ends the run with an invalid entry
C5_Witness ==
    /\ pc = "exit"
    /\ paymentMode = "schedule"
    /\ LastEntry.invalid
    /\ LastEntry.requiredSum > LastEntry.paymentThisMonth

\* C6: computeScheduleMonthRequiredPayments returns a required entry exactly
\* for the debts with a positive balance, each the larger of the debt's
\* minimum_payment (0 when the debt carries none) and its allocation (0 when
\* the row has none); requiredSum is the sum of these entries; unassigned is
\* max(0, amount - requiredSum); overBudget is requiredSum > amount.
C6_ResolverContract ==
    probe.fn = "computeScheduleMonthRequiredPayments" =>
        LET ds == probe.debts
            alloc == probe.scheduleRow.allocations
            amount == probe.monthlyPayment
            out == probe.out
            pos == {i \in 1..Len(ds) : ds[i].balance > 0}
            minOf(i) == IF "minimum_payment" \in DOMAIN ds[i]
                        THEN ds[i].minimum_payment.c ELSE 0
            allocOf(i) == IF ds[i].id \in DOMAIN alloc THEN alloc[ds[i].id] ELSE 0
            need(i) == IF minOf(i) >= allocOf(i) THEN minOf(i) ELSE allocOf(i)
        IN  /\ DOMAIN out.requiredByDebtId = {ds[i].id : i \in pos}
            /\ \A i \in pos : out.requiredByDebtId[ds[i].id] = need(i)
            /\ out.requiredSum =
                  SumSeq([i \in 1..Len(ds) |-> IF i \in pos THEN need(i) ELSE 0])
            /\ out.unassigned =
                  (IF amount > out.requiredSum THEN amount - out.requiredSum ELSE 0)
            /\ out.overBudget <=> out.requiredSum > amount

\* an over-budget row in which one debt's minimum exceeds its allocation and
\* another debt's allocation exceeds its minimum
C6_Witness ==
    /\ probe.fn = "computeScheduleMonthRequiredPayments"
    /\ probe.out.overBudget
    /\ \E i, j \in 1..Len(probe.debts) :
          LET a == probe.scheduleRow.allocations
              di == probe.debts[i]
              dj == probe.debts[j]
          IN  /\ di.balance > 0 /\ dj.balance > 0
              /\ di.id \in DOMAIN a /\ dj.id \in DOMAIN a
              /\ "minimum_payment" \in DOMAIN di
              /\ "minimum_payment" \in DOMAIN dj
              /\ di.minimum_payment.c > a[di.id]
              /\ dj.minimum_payment.c < a[dj.id]
              /\ probe.out.requiredByDebtId[di.id] = di.minimum_payment.c
              /\ probe.out.requiredByDebtId[dj.id] = a[dj.id]

\* C7 as stated: in schedule mode the plan function of the application
\* returns, for every month and every debt with a positive configured balance,
\* requiredByDebtId = max(the debt's resolved minimum payment, the row's
\* allocation for the debt).
C7_PlanRequiresMinimums ==
    paymentMode = "schedule" =>
        \A m \in 1..3 :
            LET plan == paymentPlanFn(m)
                row == ScheduleRowFor(mpFixed, paymentSchedule, m)
            IN  \A i \in 1..Len(debts) :
                    debts[i].balance > 0 =>
                        /\ (i - 1) \in DOMAIN plan.requiredByDebtId
                        /\ plan.requiredByDebtId[i - 1] =
                              Max(round2(debtsWithMin[i].minimum_payment),
                                  AllocOf(row.allocations, i - 1))

\* C8 as stated: a debt whose floor override is enabled enters the gate's
\* minimumsTotal with max(estimate, override amount) on its configured
\* balance, so the gate's aggregate is never below the sum of the minimums
\* the simulator computes on the configured balances.
C8_GateAppliesOverrideFloor ==
    LET eff(d) ==
            IF d.balance <= 0 THEN Cents(0)
            ELSE IF d.min_override_enabled
            THEN QMax(estimateMinimumPayment(d), Cents(Max(0, d.min_override_amount)))
            ELSE estimateMinimumPayment(d)
        simMin(a) == computeMonthlyMinimumDynamic(a, a.balance)
    IN  /\ minimumsTotal = round2(QSum([i \in 1..Len(debts) |-> eff(debts[i])]))
        /\ QLeq(QSum([i \in 1..Len(activeDebts) |-> simMin(activeDebts[i])]),
                QSum([i \in 1..Len(debts) |-> MinimumsTerm(debts[i])]))

\* C9: the gate's isAtRisk is true whenever income < bills, or there is an
\* active debt and free cash < aggregate minimums, or the mode is schedule and
\* the month-1 plan is over budget, or there is an active debt and the
\* month-1 funding < aggregate minimums; and when income < bills the bills
\* shortfall is bills - income.
C9_GateRules ==
    pc # "render" =>
        LET hasDebts == \E i \in 1..Len(debts) : debts[i].balance > 0
            plan1 == paymentPlanFn(1)
        IN  /\ paycheques < bills =>
                  (reality.isAtRisk /\ reality.shortfallBills = bills - paycheques)
            /\ (hasDebts /\ paycheques - bills < minimumsTotal) => reality.isAtRisk
            /\ (paymentMode = "schedule" /\ plan1.overBudget) => reality.isAtRisk
            /\ (hasDebts /\ plan1.monthlyPayment < minimumsTotal) => reality.isAtRisk

\* the gate has run on income 2000 and bills 2700 with active debts
C9_Witness ==
    /\ pc # "render"
    /\ paycheques = 200000
    /\ bills = 270000
    /\ Len(activeDebts) > 0
    /\ reality.isAtRisk
    /\ reality.shortfallBills = 70000

\* C10: a comparison result exists only when the gate is not at risk, at least
\* two debts have a positive balance and neither run's first timeline entry is
\* invalid; and no run of simulateStrategy is in progress or has returned in a
\* render whose gate is at risk.
C10_ComparisonGated ==
    /\ (pc \in {"effects", "idle"} /\ simulation.available) =>
          /\ ~reality.isAtRisk
          /\ ~Reality.isAtRisk
          /\ Cardinality({i \in 1..Len(debts) : debts[i].balance > 0}) >= 2
          /\ results["snowball"].returned /\ results["avalanche"].returned
          /\ ~results["snowball"].timeline[1].invalid
          /\ ~results["avalanche"].timeline[1].invalid
    /\ (pc \in {"effects", "idle"} /\ Reality.isAtRisk) =>
          /\ ~simulation.available
          /\ ~results["snowball"].returned /\ ~results["avalanche"].returned
    /\ pc \in RunPcs => (~reality.isAtRisk /\ ~Reality.isAtRisk)

\* both runs were made and compared
C10_Witness ==
    /\ pc = "idle"
    /\ simulation.available
    /\ results["snowball"].returned
    /\ results["avalanche"].returned

\* C11: the comparison's winner is, for goal speed, avalanche exactly when its
\* monthsToDebtFree is strictly smaller than snowball's; for goal interest,
\* avalanche exactly when its totalInterest is strictly smaller; for goal
\* stick, snowball; and monthsDiff and interestDiff are the absolute
\* differences of the two runs' monthsToDebtFree and totalInterest.
C11_WinnerRule ==
    (pc \in {"effects", "idle"} /\ simulation.available) =>
        LET snow == results["snowball"]
            aval == results["avalanche"]
            dist(a, b) == IF a >= b THEN a - b ELSE b - a
        IN  /\ simulation.winner \in {"snowball", "avalanche"}
            /\ goal = "speed" =>
                  (simulation.winner = "avalanche"
                      <=> aval.monthsToDebtFree < snow.monthsToDebtFree)
            /\ goal = "interest" =>
                  (simulation.winner = "avalanche"
                      <=> aval.totalInterest < snow.totalInterest)
            /\ goal = "stick" => simulation.winner = "snowball"
            /\ simulation.monthsDiff =
                  dist(snow.monthsToDebtFree, aval.monthsToDebtFree)
            /\ simulation.interestDiff = dist(snow.totalInterest, aval.totalInterest)

\* a comparison for goal speed that avalanche wins by being a month faster
C11_Witness ==
    /\ pc = "idle"
    /\ simulation.available
    /\ goal = "speed"
    /\ simulation.winner = "avalanche"
    /\ results["avalanche"].monthsToDebtFree < results["snowball"].monthsToDebtFree
    /\ simulation.monthsDiff = 1
    /\ simulation.interestDiff > 0

\* the allocations of the row that governs month 1, summed over the debts with
\* a positive configured balance (a debt's key is its position in the form)
Month1AllocationSum ==
    LET row == ScheduleRowFor(mpFixed, paymentSchedule, 1)
    IN  SumSeq([i \in 1..Len(debts) |->
                   IF debts[i].balance > 0 /\ (i - 1) \in DOMAIN row.allocations
                   THEN row.allocations[i - 1] ELSE 0])

Month1Amount == ScheduleRowFor(mpFixed, paymentSchedule, 1).amount

\* C12: in schedule mode, whenever the month-1 row's allocations to debts with
\* a positive balance sum to more than the month-1 amount, the month-1 plan
\* is over budget, the gate reports scheduleInvalid and isAtRisk, and no
\* simulation is run in that render.
C12_OverAllocatedMonth1Blocks ==
    (paymentMode = "schedule" /\ Month1AllocationSum > Month1Amount) =>
        /\ paymentPlanFn(1).overBudget
        /\ pc # "render" =>
              /\ reality.scheduleInvalid
              /\ reality.isAtRisk
              /\ pc \notin RunPcs
              /\ \A s \in Strategies : ~results[s].returned
              /\ ~simulation.available

\* schedule mode with two debts, a month-1 row allocating more than its
\* amount, and no other reason for the gate to refuse
C12_Witness ==
    /\ pc = "idle"
    /\ paymentMode = "schedule"
    /\ Len(activeDebts) = 2
    /\ Month1AllocationSum > Month1Amount
    /\ reality.scheduleInvalid
    /\ ~reality.cannotCoverBills
    /\ ~reality.cannotCoverMinimums
    /\ ~reality.month1BelowMins
    /\ ~simulation.available

\* a step of a run leaves every repaid debt as it is and pays it nothing, and
\* records the month in which a debt's balance reaches zero
PaidDebtFrozenStep ==
    pc \in RunPcs =>
        \A i \in 1..Len(state) :
            /\ (state[i].balance > 0 /\ state'[i].balance = 0) =>
                   (state'[i].payoffMonth = month)
            /\ (state[i].balance = 0) =>
                   /\ state'[i] = state[i]
                   /\ IF pc = "month"
                      THEN \/ cur' = cur
                           \/ /\ cur'.paid[i] = 0
                              /\ cur'.extraBy[i] = 0
                              /\ cur'.interest[i] = 0
                      ELSE /\ cur'.paid[i] = cur.paid[i]
                           /\ cur'.extraBy[i] = cur.extraBy[i]

\* C13: within one run, when a debt's balance reaches zero in month m its
\* payoffMonth becomes m; from then on its payoffMonth, its balance (zero) and
\* its cumulative interest never change, and it is paid nothing in any later
\* month.
C13_PaidDebtIsFrozen ==
    /\ [](pc \in RunPcs =>
            \A i \in 1..Len(state) :
                /\ state[i].balance = 0 <=> state[i].payoffMonth # 0
                /\ state[i].payoffMonth <= Len(timeline) + 1)
    /\ [][PaidDebtFrozenStep]_vars

\* a debt bearing interest was repaid in month 1 and the run is in month 3 or
\* later with another debt still owing
C13_Witness ==
    /\ pc = "month"
    /\ month >= 3
    /\ \E i, j \in 1..Len(state) :
          /\ state[i].payoffMonth = 1
          /\ state[i].balance = 0
          /\ state[i].apr > 0
          /\ state[i].interestPaid > 0
          /\ cur.paid[i] = 0
          /\ state[j].balance > 0

\* C14: in schedule mode, for every month greater than the largest month
\* among the explicit rows, the plan function returns the funding amount of
\* the row with the largest month, works from that row's allocation map, and
\* so returns what it returns for that largest month.
C14_LastRowRepeats ==
    probe.fn = "getPaymentPlanFn" =>
        LET rows == probe.scheduleRows
            n == Len(rows)
            top == {i \in 1..n : \A j \in 1..n : rows[j].month <= rows[i].month}
        IN  (n > 0 /\ \A i \in 1..n : rows[i].month < probe.month) =>
                LET last == CHOOSE i \in top : \A j \in top : j <= i
                IN  /\ probe.out.monthlyPayment = rows[last].amount
                    /\ probe.row.amount = rows[last].amount
                    /\ probe.row.allocations = rows[last].allocations
                    /\ probe.out = PaymentPlan("schedule", mpFixed, rows,
                                               activeDebts, rows[last].month)

\* a month beyond a schedule whose row of the largest month is listed first
\* and differs from the other row in amount and allocations
C14_Witness ==
    /\ probe.fn = "getPaymentPlanFn"
    /\ Len(probe.scheduleRows) = 2
    /\ probe.scheduleRows[1].month = 4
    /\ probe.scheduleRows[2].month = 2
    /\ probe.scheduleRows[1].amount # probe.scheduleRows[2].amount
    /\ probe.scheduleRows[1].allocations # NoAlloc
    /\ probe.scheduleRows[2].allocations = NoAlloc
    /\ probe.month = 6
    /\ probe.out.monthlyPayment = probe.scheduleRows[1].amount
    /\ probe.out.requiredByDebtId[0] = 3000

\* C15 as stated: the identifier under which a debt's allocations and
\* simulation state are keyed stays with that debt: a debt with a positive
\* balance that is in the form before and after an operation (the same form
\* id) has the same key in activeDebts before and after it.
C15_KeysStayWithDebts ==
    [][\A i \in 1..Len(debts), j \in 1..Len(debts') :
          (debts[i].id = debts'[j].id /\ debts[i].balance > 0 /\ debts'[j].balance > 0)
              => ActiveDebt(debts[i], i - 1).id = ActiveDebt(debts'[j], j - 1).id]_vars

\* what C16 expects as requiredSum of the entry just pushed: over the debts
\* with a positive balance once the month's interest is accrued (no interest
\* is accrued in a month that is not simulated), the larger of the debt's
\* dynamic minimum on that balance and the allocation the month's row makes
\* to it (none in fixed mode)
ExpectedRequiredSum ==
    LET m == LastEntry.month
        alloc == IF paymentMode = "schedule"
                 THEN ScheduleRowFor(mpFixed, paymentSchedule, m).allocations
                 ELSE NoAlloc
        accrued(i) == IF LastEntry.invalid THEN state[i].balance
                      ELSE cur.pre[i] + cur.interest[i]
        minOf(i) == round2(computeMonthlyMinimumDynamic(
                        [type |-> state[i].type, interest_rate |-> state[i].apr,
                         min_floor_enabled |-> state[i].min_floor_enabled,
                         min_floor |-> state[i].min_floor], accrued(i)))
        allocOf(i) == IF state[i].id \in DOMAIN alloc THEN alloc[state[i].id] ELSE 0
    IN  SumSeq([i \in 1..Len(state) |->
                   IF accrued(i) > 0
                   THEN (IF minOf(i) >= allocOf(i) THEN minOf(i) ELSE allocOf(i))
                   ELSE 0])

\* C16 as stated: in every timeline entry, requiredSum is the sum, over the
\* debts with a positive balance after the month's accrual, of
\* max(dynamic minimum, the user's allocation to the debt for the month).
C16_RequiredSumOfEveryEntry ==
    (pc \in {"month", "exit"} /\ Len(timeline) > 0) =>
        LastEntry.requiredSum = ExpectedRequiredSum

\* balance * annualRatePercent / 100 / 12 as an exact amount, and the larger
\* of it and 25.00
InterestOnlyOrFloor(debt) ==
    LET product == debt.balance * debt.interest_rate
        interestOnly == [c |-> product \div 120000, f |-> 3 * (product % 120000)]
    IN  IF interestOnly.c >= 2500 THEN interestOnly ELSE Cents(2500)

RunIndependentStep ==
    /\ pc \in RunPcs =>
          UNCHANGED <<debts, paymentMode, monthlyPayment, paymentSchedule>>
    /\ \A s \in Strategies : results[s].returned => results'[s] = results[s]
    /\ (pc \in {"call", "returned"} /\ pc' = "month") =>
          state' = InitState(activeDebts)

DefaultCase ==
    /\ debts = DefaultDebts
    /\ paymentMode = "fixed"
    /\ monthlyPayment = 150000

EstimateAtBalance(b) == estimateMinimumPayment([probe.debt EXCEPT !.balance = b])
EstimateAtRate(r) == estimateMinimumPayment([probe.debt EXCEPT !.interest_rate = r])

\* C20: for every debt type the estimate of the minimum payment does not
\* decrease when the balance grows at a fixed type and rate, nor when the
\* rate grows at a fixed type and balance.
C20_EstimateMonotone ==
    probe.fn = "estimateMinimumPayment" =>
        /\ \A b \in ProbeBalances :
              /\ b <= probe.debt.balance => QLeq(EstimateAtBalance(b), probe.out)
              /\ b >= probe.debt.balance => QLeq(probe.out, EstimateAtBalance(b))
        /\ \A r \in ProbeRates :
              /\ r <= probe.debt.interest_rate => QLeq(EstimateAtRate(r), probe.out)
              /\ r >= probe.debt.interest_rate => QLeq(probe.out, EstimateAtRate(r))

\* a credit card of 1250.00 at 18%: 31.25, more than at 1000.00 and more
\* than at 12%
C20_Witness ==
    /\ probe.fn = "estimateMinimumPayment"
    /\ probe.debt = [type |-> "credit_card", balance |-> 125000, interest_rate |-> 1800]
    /\ probe.out = Cents(3125)
    /\ ~QLeq(probe.out, EstimateAtBalance(100000))
    /\ ~QLeq(probe.out, EstimateAtRate(1200))

\* the rounded estimate for debt i of the run at a given balance
EstimateOn(i, balance) ==
    round2(estimateMinimumPayment([type |-> state[i].type, balance |-> balance,
                                   interest_rate |-> state[i].apr]))

\* C21: in every simulated month the minimum used for each active debt is
\* the estimate on the debt's balance after the month's interest was added,
\* raised to the override floor when the debt's floor is enabled, so it is
\* never below that estimate; the required pass intends at least this
\* minimum, and exactly it in fixed mode.
C21_MinimumFromPostAccrualBalance ==
    pc \in RunPcs =>
        \A i \in 1..Len(state) :
            LET post == cur.pre[i] + cur.interest[i]
            IN  post > 0 =>
                  /\ cur.dynamicMin[i] =
                        IF state[i].min_floor_enabled
                        THEN Max(EstimateOn(i, post), state[i].min_floor)
                        ELSE EstimateOn(i, post)
                  /\ cur.dynamicMin[i] >= EstimateOn(i, post)
                  /\ cur.intended[i] >= cur.dynamicMin[i]
                  /\ ~cur.hasRequired => cur.intended[i] = cur.dynamicMin[i]

\* a month in which one debt's minimum is above the estimate on its balance
\* before interest, and another debt's minimum is its floor, above the
\* estimate
C21_Witness ==
    /\ pc \in RunPcs
    /\ \E i \in 1..Len(state) :
          /\ cur.interest[i] > 0
          /\ cur.dynamicMin[i] > EstimateOn(i, cur.pre[i])
    /\ \E j \in 1..Len(state) :
          /\ state[j].min_floor_enabled
          /\ cur.pre[j] > 0
          /\ cur.dynamicMin[j] = state[j].min_floor
          /\ cur.dynamicMin[j] > EstimateOn(j, cur.pre[j] + cur.interest[j])

\* after every discretionary iteration the target is repaid or the month's
\* funding is used up, and the iterations of a month do not outnumber the
\* debts that were active when the loop started
ExtraLoopBound ==
    pc \in RunPcs =>
        /\ cur.iterations <= cur.activeAtLoopStart
        /\ cur.iterations > 0 =>
              \/ state[cur.target].balance = 0
              \/ cur.remaining = 0

\* C22: in every simulated month the discretionary loop terminates, its
\* iterations do not exceed the number of debts active when the loop starts,
\* and every iteration either brings the target's balance to zero or exhausts
\* the remaining funding.
C22_ExtraLoopTerminates == [](ExtraLoopBound) /\ ((pc = "extra") ~> (pc = "month"))

\* a month whose loop went round once for each of the two debts active at its
\* start, repaid both and left money over
C22_Witness ==
    /\ pc = "month"
    /\ cur.activeAtLoopStart = 2
    /\ cur.iterations = 2
    /\ cur.remaining > 0
    /\ allPaid(state)

\* C23: whenever the gate is not at risk and a simulation runs, the month-1
\* timeline entry has requiredSum <= paymentThisMonth, and in month 1 every
\* active debt is paid its full dynamic minimum, or its whole balance if that
\* is smaller.
C23_GateCoversMonth1Minimums ==
    (pc \in RunPcs /\ ~reality.isAtRisk /\ Len(timeline) = 1 /\ month = 2) =>
        /\ ~timeline[1].invalid
        /\ timeline[1].requiredSum <= timeline[1].paymentThisMonth
        /\ \A i \in 1..Len(state) :
              cur.paid[i] >= Min(cur.dynamicMin[i], cur.pre[i] + cur.interest[i])

\* C24: in every non-invalid timeline entry the amount routed by the
\* strategy, extraPaid, is at most the entry's unassigned remainder, which is
\* paymentThisMonth minus requiredSum, floored at 0.
C24_ExtraWithinUnassigned ==
    pc \in RunPcs =>
        \A k \in 1..Len(timeline) :
            ~timeline[k].invalid =>
                /\ timeline[k].unassigned =
                      Max(0, timeline[k].paymentThisMonth - timeline[k].requiredSum)
                /\ timeline[k].extraPaid <= timeline[k].unassigned

\* the locals in cur are those of the month of the timeline's last entry
CurIsLastEntry ==
    /\ pc \in {"month", "returned"}
    /\ Len(timeline) >= 1
    /\ ~LastEntry.invalid
    /\ LastEntry.month = month - 1

\* what the required pass of the month in cur paid
RequiredPassPaid == SumSeq([i \in 1..Len(state) |-> cur.paid[i] - cur.extraBy[i]])

\* C25: in every non-invalid timeline entry the money disbursed is at most
\* the month's funding: minPaid + extraPaid <= paymentThisMonth in fixed
\* mode, directedPaid + extraPaid <= paymentThisMonth in schedule mode; and
\* in both modes minPaid is at most what the required pass paid.
C25_DisbursedWithinFunding ==
    pc \in RunPcs =>
        /\ \A k \in 1..Len(timeline) :
              ~timeline[k].invalid =>
                  IF paymentMode = "schedule"
                  THEN timeline[k].directedPaid + timeline[k].extraPaid
                          <= timeline[k].paymentThisMonth
                  ELSE timeline[k].minPaid + timeline[k].extraPaid
                          <= timeline[k].paymentThisMonth
        /\ CurIsLastEntry =>
              /\ LastEntry.minPaid <= RequiredPassPaid
              /\ RequiredPassPaid + LastEntry.extraPaid <= LastEntry.paymentThisMonth

\* a schedule month that spends all of its funding: an allocation above the
\* debt's minimum is paid, and the strategy routes the rest
C25_Witness ==
    /\ CurIsLastEntry
    /\ paymentMode = "schedule"
    /\ LastEntry.minPaid < LastEntry.directedPaid
    /\ LastEntry.extraPaid > 0
    /\ LastEntry.directedPaid + LastEntry.extraPaid = LastEntry.paymentThisMonth

\* C26: balances are conserved month over month: in every non-invalid
\* timeline entry totalRemaining is the previous entry's totalRemaining (the
\* sum of the initial balances for month 1) plus interestThisMonth minus the
\* payments of the required pass (minPaid in fixed mode, directedPaid in
\* schedule mode) minus extraPaid, and totalInterestToDate is the sum of
\* interestThisMonth over the entries so far (the previous entry's
\* totalInterestToDate plus this entry's interestThisMonth).
C26_BalancesConserved ==
    pc \in RunPcs =>
        \A k \in 1..Len(timeline) :
            LET e == timeline[k]
                before == IF k = 1 THEN TotalBalance(InitState(activeDebts))
                          ELSE timeline[k - 1].totalRemaining
                interestBefore == IF k = 1 THEN 0
                                  ELSE timeline[k - 1].totalInterestToDate
                required == IF paymentMode = "schedule" THEN e.directedPaid
                            ELSE e.minPaid
            IN  ~e.invalid =>
                  /\ e.totalRemaining =
                        before + e.interestThisMonth - required - e.extraPaid
                  /\ e.totalInterestToDate = interestBefore + e.interestThisMonth

\* a fixed-mode entry after the first, with interest, minimums and a
\* discretionary payment, that leaves a balance
C26_Witness ==
    /\ pc \in RunPcs
    /\ paymentMode = "fixed"
    /\ \E k \in 2..Len(timeline) :
          /\ timeline[k].interestThisMonth > 0
          /\ timeline[k].minPaid > 0
          /\ timeline[k].extraPaid > 0
          /\ timeline[k].totalRemaining > 0
          /\ timeline[k].totalInterestToDate > timeline[k].interestThisMonth

\* the run returned r after an invalid entry in a month later than month 1
HaltedLate(r) ==
    /\ r.returned
    /\ Len(r.timeline) >= 2
    /\ r.timeline[Len(r.timeline)].invalid

\* C27: monthsToDebtFree of every run is the timeline's length when all debts
\* are paid at the end of the run and 600 otherwise, also for a run halted by
\* an invalid entry in a month after month 1; every unpaid debt is reported
\* with payoffMonth 600; and after such a halted run the comparator still
\* returns a winner and the two differences.
C27_HaltedRunReportsCap ==
    /\ pc = "returned" =>
          LET r == results[strategy]
          IN  /\ r.monthsToDebtFree =
                    IF allPaid(state) THEN Len(timeline) ELSE MAX_MONTHS
              /\ r.timeline = timeline
              /\ HaltedLate(r) => r.monthsToDebtFree = MAX_MONTHS
              /\ \A i \in 1..Len(state) :
                    state[i].balance > 0 => r.perDebt[i].payoffMonth = MAX_MONTHS
    /\ (pc \in {"effects", "idle"} /\ \E s \in Strategies : HaltedLate(results[s])) =>
          LET snow == results["snowball"]
              aval == results["avalanche"]
          IN  /\ simulation.available
              /\ simulation.winner = pickWinner(goal, snow, aval)
              /\ simulation.monthsDiff =
                    Abs(snow.monthsToDebtFree - aval.monthsToDebtFree)
              /\ simulation.interestDiff = Abs(snow.totalInterest - aval.totalInterest)

\* both runs were halted in month 2 with a debt unpaid, and the comparison is
\* shown with both horizons at the cap
C27_Witness ==
    /\ pc = "idle"
    /\ HaltedLate(results["snowball"])
    /\ HaltedLate(results["avalanche"])
    /\ results["snowball"].monthsToDebtFree = MAX_MONTHS
    /\ \E i \in 1..Len(state) : results["snowball"].perDebt[i].payoffMonth = MAX_MONTHS
    /\ simulation.available
    /\ simulation.winner = "snowball"
    /\ simulation.monthsDiff = 0

\* what month m's schedule row requires of the debts still unpaid in st: for
\* each the larger of its allocation and of its minimum after the month's
\* interest
RequiredOfUnpaid(st, m) ==
    LET row == ScheduleRowFor(mpFixed, paymentSchedule, m)
        accrued == Accrue(st)
    IN  SumSeq([i \in 1..Len(st) |->
                   IF Paid(st[i]) THEN 0
                   ELSE Max(AllocOf(row.allocations, st[i].id), DynamicMin(accrued[i]))])

\* C28: in schedule mode a run is halted with an invalid entry in month m
\* only if what month m requires of the debts still unpaid in the run exceeds
\* the month's funding; the allocations of debts repaid earlier in the run
\* never make a month over budget.
C28_HaltedOnlyWhenUnpaidDebtsOverBudget ==
    (pc \in RunPcs /\ paymentMode = "schedule" /\ Len(timeline) >= 1
       /\ LastEntry.invalid) =>
        RequiredOfUnpaid(state, LastEntry.month) > LastEntry.paymentThisMonth

\* C29: in schedule mode every month that has no explicit row resolves to
\* the row with the greatest month, also when the month lies in a gap inside
\* the explicit range; and when the schedule has no rows every month
\* resolves to the fixed amount without allocations.
C29_MonthWithoutRowTakesGreatestRow ==
    probe.fn = "getPaymentPlanFn" =>
        LET rows == probe.scheduleRows
            n == Len(rows)
            top == {i \in 1..n : \A j \in 1..n : rows[j].month <= rows[i].month}
        IN  (\A i \in 1..n : rows[i].month # probe.month) =>
                IF n = 0
                THEN /\ probe.row.amount = mpFixed
                     /\ probe.row.allocations = NoAlloc
                     /\ probe.out.monthlyPayment = mpFixed
                     /\ probe.out.requiredSum = 0
                     /\ ~probe.out.overBudget
                ELSE LET last == CHOOSE i \in top : \A j \in top : j <= i
                     IN  /\ probe.row.month = rows[last].month
                         /\ probe.row.amount = rows[last].amount
                         /\ probe.row.allocations = rows[last].allocations
                         /\ probe.out.monthlyPayment = rows[last].amount
                         /\ probe.out = PaymentPlan("schedule", mpFixed, rows,
                                                    activeDebts, rows[last].month)

\* month 3 of a schedule with rows for months 2 and 4 only takes the row of
\* month 4, not the row before the gap
C29_Witness ==
    /\ probe.fn = "getPaymentPlanFn"
    /\ Len(probe.scheduleRows) = 2
    /\ probe.scheduleRows[1].month = 2
    /\ probe.scheduleRows[2].month = 4
    /\ probe.scheduleRows[1].amount = 5000
    /\ probe.scheduleRows[2].amount = 8000
    /\ probe.scheduleRows[2].allocations # NoAlloc
    /\ probe.month = 3
    /\ probe.out.monthlyPayment = 8000
    /\ probe.out.requiredByDebtId[0] = 3000

\* while the UI mode stays simple a fixed payment mode stays fixed
StaysFixedStep ==
    (uiMode = "simple" /\ paymentMode = "fixed" /\ uiMode' = "simple") =>
        paymentMode' = "fixed"

\* the gate and the simulation of the current render were computed
RenderDone == pc \in RunPcs \cup {"effects", "idle"}

====
